---- MODULE Spec2Model ----
(***************************************************************************)
(* Permission correlation engine of happy-cli (startPermissionResolver in  *)
(* src/src/index.ts): the tool-call ledger, the queue of approval requests *)
(* that arrived before their tool call, the pending decisions, their       *)
(* timers and the externally-synchronized agent state.                     *)
(***************************************************************************)
EXTENDS Integers, Sequences, FiniteSets, TLC

\* ---------------------------------------------------------------- bounds
MaxSubmits == 2      \* approval requests (submit calls) issued in a run
MaxRecords == 2      \* tool_use blocks (record calls) observed in a run

\* ---------------------------------------------------------------- inputs
Names == {"Bash", "exit_plan_mode", "ExitPlanMode"}

\* Argument payloads are JS objects: a sequence of <<key, value>> pairs in
\* insertion order.  ArgAB and ArgBA are the same object written with its
\* keys in a different order.
ArgLs == << <<"command", "ls">> >>
ArgAB == << <<"a", "1">>, <<"b", "2">> >>
ArgBA == << <<"b", "2">>, <<"a", "1">> >>
ArgPlan == << <<"plan", "p">> >>
ArgValues == {ArgLs, ArgAB, ArgBA, ArgPlan}

\* the (name, arguments) pairs a submit or a tool_use block can carry
ToolCallShapes ==
    {[name |-> "Bash", arguments |-> ArgLs],
     [name |-> "Bash", arguments |-> ArgAB],
     [name |-> "Bash", arguments |-> ArgBA],
     [name |-> "exit_plan_mode", arguments |-> ArgPlan],
     [name |-> "ExitPlanMode", arguments |-> ArgPlan]}

PLAN_FAKE_REJECT == "PLAN_FAKE_REJECT"
NoReason == "undefined"
Reasons == {NoReason, PLAN_FAKE_REJECT}
NoMode == "undefined"
Modes == {NoMode, "default", "acceptEdits", "bypassPermissions", "plan"}

ToolIds == 1..MaxRecords
\* ids a decision message can carry: every tool-call id and one unknown id
MessageIds == 0..MaxRecords
\* decision messages: an approval carries the chosen mode, a denial a reason
PermissionResponse ==
    [id : MessageIds, approved : {TRUE}, reason : {NoReason}, mode : Modes]
    \cup [id : MessageIds, approved : {FALSE}, reason : Reasons, mode : {NoMode}]

\* ---------------------------------------------------------------- state
VARIABLES
    toolCalls,                  \* ledger: sequence of [id, name, input, used]
    responses,                  \* Map id -> decision message
    requests,                   \* Map id -> resolver (the submit it resolves)
    pendingPermissionRequests,  \* queue: sequence of submits waiting for an id
    queueTimers,                \* submits whose 30 s queue timer is armed
    decisionTimers,             \* armed 4.5 min timers, [sub, id]
    agentRequests,              \* agentState.requests (pending)
    completedRequests,          \* agentState.completedRequests (terminal)
    sessionQueue,               \* session.queue: permissionMode of each restart
    promises,                   \* the promise of every submit issued so far
    nextToolId,                 \* id of the next tool_use block
    lastPush                    \* outcome of the last push notification

\* the daemon's control server and the registry behind its callbacks
VARIABLES
    children,                   \* tracked sessions, [pid, happySessionId, startedBy]
    nextPid,                    \* pid of the next spawned process
    spawnSessionCalls,          \* number of calls of spawnSession
    stopSessionCalls,           \* number of calls of stopSession
    nextStopRequest,            \* number of the next POST /stop request
    inStopHandler,              \* the /stop request whose handler is running, or 0
    stopAcked,                  \* /stop requests whose handler has returned
    shutdownTimers,             \* /stop requests whose 50 ms timer is armed
    shutdownRequested,          \* /stop requests that called requestShutdown
    lastReply                   \* the last response of the control server

correlatorVars == <<toolCalls, responses, requests, pendingPermissionRequests,
                    queueTimers, decisionTimers, agentRequests, completedRequests,
                    sessionQueue, promises, nextToolId, lastPush>>

daemonVars == <<children, nextPid, spawnSessionCalls, stopSessionCalls, nextStopRequest,
                inStopHandler, stopAcked, shutdownTimers, shutdownRequested,
                lastReply>>

vars == <<correlatorVars, daemonVars>>

\* ---------------------------------------------------------------- helpers
EmptyMap == [x \in {} |-> 0]
MapSet(m, k, v) == [x \in (DOMAIN m) \cup {k} |-> IF x = k THEN v ELSE m[x]]
MapDelete(m, k) == [x \in (DOMAIN m) \ {k} |-> m[x]]

Range(s) == {s[i] : i \in DOMAIN s}
RemoveAt(s, i) == SubSeq(s, 1, i - 1) \o SubSeq(s, i + 1, Len(s))

\* Structural equality of two argument objects, independent of key order.
deepEqual(a, b) == Len(a) = Len(b) /\ Range(a) = Range(b)

IsPlanExit(name) == name = "exit_plan_mode" \/ name = "ExitPlanMode"

\* the position of the smallest / largest index of a non-empty set
Min(S) == CHOOSE x \in S : \A y \in S : x <= y
Max(S) == CHOOSE x \in S : \A y \in S : x >= y

\* variant of the scan: a consumed match is skipped and the scan goes on
RECURSIVE scanToolCallsSkipUsed(_, _, _, _)
scanToolCallsSkipUsed(calls, i, name, args) ==
    IF i = 0 THEN 0
    ELSE IF calls[i].name = name /\ deepEqual(calls[i].input, args)
            /\ ~calls[i].used
         THEN i
         ELSE scanToolCallsSkipUsed(calls, i - 1, name, args)

\* variant of the scan: oldest record first
scanToolCallsOldestFirst(calls, i, name, args) ==
    LET M == {j \in 1..i : calls[j].name = name /\ deepEqual(calls[j].input, args)}
    IN IF M = {} THEN 0
       ELSE IF calls[Min(M)].used THEN 0 ELSE Min(M)

\* for (let i = toolCalls.length - 1; i >= 0; i--) in resolveToolCallId:
\* the index of the record that is claimed, 0 for null.
RECURSIVE scanToolCalls(_, _, _, _)
scanToolCalls(calls, i, name, args) ==
    IF i = 0 THEN 0
    ELSE IF calls[i].name = name /\ deepEqual(calls[i].input, args)
         THEN (IF calls[i].used THEN 0 ELSE i)
         ELSE scanToolCalls(calls, i - 1, name, args)

resolveToolCallId(calls, name, args) == scanToolCalls(calls, Len(calls), name, args)

\* variant of the queue scan: the tool name alone decides the match
RECURSIVE scanPendingByName(_, _, _, _)
scanPendingByName(queue, i, name, input) ==
    IF i = 0 THEN 0
    ELSE IF queue[i].name = name THEN i
         ELSE scanPendingByName(queue, i - 1, name, input)

\* for (let i = pendingPermissionRequests.length - 1; i >= 0; i--) in
\* onMessage: the index of the queued request that is dequeued, 0 for none.
RECURSIVE scanPending(_, _, _, _)
scanPending(queue, i, name, input) ==
    IF i = 0 THEN 0
    ELSE IF queue[i].name = name /\ deepEqual(queue[i].arguments, input)
         THEN i
         ELSE scanPending(queue, i - 1, name, input)

\* pendingPermissionRequests.findIndex(p => p.request === request)
findIndex(queue, s) ==
    IF \E i \in DOMAIN queue : queue[i].sub = s
    THEN CHOOSE i \in DOMAIN queue :
            queue[i].sub = s /\ \A j \in 1..(i - 1) : queue[j].sub # s
    ELSE 0

\* toolCalls.find(tc => tc.id === block.tool_use_id)
findToolCall(calls, id) ==
    IF \E i \in DOMAIN calls : calls[i].id = id
    THEN CHOOSE i \in DOMAIN calls :
            calls[i].id = id /\ \A j \in 1..(i - 1) : calls[j].id # id
    ELSE 0

\* variant of the resolver: only the snake_case spelling is intercepted
resolvedValueSnakeOnly(name, message) ==
    IF name = "exit_plan_mode" /\ message.approved
    THEN [approved |-> FALSE, reason |-> PLAN_FAKE_REJECT]
    ELSE [approved |-> message.approved, reason |-> message.reason]

\* variant of the resolver: every plan-exit decision is turned into the
\* rejection sentinel, a denial included
resolvedValueDenialWrapped(name, message) ==
    IF IsPlanExit(name)
    THEN [approved |-> FALSE, reason |-> PLAN_FAKE_REJECT]
    ELSE [approved |-> message.approved, reason |-> message.reason]

\* what wrappedResolve / resolve hands to the submit's promise
resolvedValue(name, message) ==
    IF IsPlanExit(name) /\ message.approved
    THEN [approved |-> FALSE, reason |-> PLAN_FAKE_REJECT]
    ELSE [approved |-> message.approved, reason |-> message.reason]

\* variant of the mode: every supplied mode is carried, plan included
restartModeAnySupplied(mode) ==
    IF mode # NoMode THEN mode ELSE "default"

\* the permissionMode carried by the restart instruction
restartMode(mode) ==
    IF mode # NoMode /\ mode \in {"default", "acceptEdits", "bypassPermissions"}
    THEN mode ELSE "default"

\* variant of the entry: the plan-exit check does not look at the tool
completedEntryAnyTool(request, message) ==
    LET isExitPlanModeSuccess == /\ ~message.approved
                                 /\ message.reason = PLAN_FAKE_REJECT
    IN [tool |-> request.tool, arguments |-> request.arguments,
        status |-> IF isExitPlanModeSuccess THEN "approved"
                   ELSE IF message.approved THEN "approved" ELSE "denied",
        reason |-> IF isExitPlanModeSuccess THEN "Plan approved"
                   ELSE message.reason]

\* the completedRequests entry written by the permission handler
completedEntry(request, message) ==
    LET isExitPlanModeSuccess == /\ request.tool = "exit_plan_mode"
                                 /\ ~message.approved
                                 /\ message.reason = PLAN_FAKE_REJECT
    IN [tool |-> request.tool, arguments |-> request.arguments,
        status |-> IF isExitPlanModeSuccess THEN "approved"
                   ELSE IF message.approved THEN "approved" ELSE "denied",
        reason |-> IF isExitPlanModeSuccess THEN "Plan approved"
                   ELSE message.reason]

canceledEntry(request, reason) ==
    [tool |-> request.tool, arguments |-> request.arguments,
     status |-> "canceled", reason |-> reason]

\* ---------------------------------------------------------------- Init
Init ==
    /\ toolCalls = <<>>
    /\ responses = EmptyMap
    /\ requests = EmptyMap
    /\ pendingPermissionRequests = <<>>
    /\ queueTimers = {}
    /\ decisionTimers = {}
    /\ agentRequests = EmptyMap
    /\ completedRequests = EmptyMap
    /\ sessionQueue = <<>>
    /\ promises = <<>>
    /\ nextToolId = 1
    /\ lastPush = "none"
    /\ children = {}
    /\ nextPid = 1
    /\ spawnSessionCalls = 0
    /\ stopSessionCalls = 0
    /\ nextStopRequest = 1
    /\ inStopHandler = 0
    /\ stopAcked = {}
    /\ shutdownTimers = {}
    /\ shutdownRequested = {}
    /\ lastReply = [route |-> "none", code |-> 0, body |-> [status |-> "none"]]

\* ---------------------------------------------------------------- actions
\* pushClient.sendToAllDevices(title, body, data): fire-and-forget.  The
\* call returns at once and never throws; delivered tells whether the
\* notification went out, and the caller sees nothing of it.
sendToAllDevices(delivered) == IF delivered THEN "sent" ELSE "failed"

\* variant of handlePermissionRequest: the notification is awaited and its
\* failure ends the call before the pending entry is written
handlePermissionRequestAwaitsPush(id, s, name, args, delivered) ==
    /\ requests' = MapSet(requests, id, s)
    /\ decisionTimers' = decisionTimers \cup {[sub |-> s, id |-> id]}
    /\ lastPush' = sendToAllDevices(delivered)
    /\ agentRequests' = IF delivered
                        THEN MapSet(agentRequests, id,
                                    [tool |-> name, arguments |-> args])
                        ELSE agentRequests

\* handlePermissionRequest(id, request) for the submit s: registers the
\* resolver, arms the decision timer, sends the push notification and writes
\* the pending entry.
handlePermissionRequest(id, s, name, args, delivered) ==
    /\ requests' = MapSet(requests, id, s)
    /\ decisionTimers' = decisionTimers \cup {[sub |-> s, id |-> id]}
    /\ lastPush' = sendToAllDevices(delivered)
    /\ agentRequests' = MapSet(agentRequests, id,
                               [tool |-> name, arguments |-> args])

\* the handler given to startPermissionServerV2: a submit of (name, args)
Submit(name, args) ==
    /\ Len(promises) < MaxSubmits
    /\ LET s == Len(promises) + 1
           i == resolveToolCallId(toolCalls, name, args)
       IN IF i = 0
          THEN /\ pendingPermissionRequests' = Append(pendingPermissionRequests,
                      [sub |-> s, name |-> name, arguments |-> args])
               /\ queueTimers' = queueTimers \cup {s}
               /\ promises' = Append(promises,
                      [name |-> name, arguments |-> args, st |-> "queued",
                       id |-> 0, approved |-> FALSE, reason |-> NoReason])
               /\ UNCHANGED <<toolCalls, requests, decisionTimers, agentRequests,
                              lastPush>>
          ELSE /\ toolCalls' = [toolCalls EXCEPT ![i].used = TRUE]
               /\ \E delivered \in BOOLEAN :
                     handlePermissionRequest(toolCalls[i].id, s, name, args,
                                             delivered)
               /\ promises' = Append(promises,
                      [name |-> name, arguments |-> args, st |-> "awaiting",
                       id |-> toolCalls[i].id, approved |-> FALSE,
                       reason |-> NoReason])
               /\ UNCHANGED <<pendingPermissionRequests, queueTimers>>
    /\ UNCHANGED <<responses, completedRequests, sessionQueue, nextToolId>>
    /\ UNCHANGED daemonVars

\* the part of the state the queue timer's callback can write
QueueTimeoutState ==
    [pendingPermissionRequests |-> pendingPermissionRequests,
     promises |-> promises, requests |-> requests,
     agentRequests |-> agentRequests, completedRequests |-> completedRequests]

\* variant of the callback: the promise is rejected, the entry stays queued
QueueTimeoutResultNoSplice(s) ==
    LET idx == findIndex(pendingPermissionRequests, s)
    IN IF idx # 0
       THEN [QueueTimeoutState EXCEPT
                !.promises = [promises EXCEPT ![s].st = "rejected"]]
       ELSE QueueTimeoutState

\* the setTimeout callback of the queued submit s: the state it leaves when
\* it runs in the current state
QueueTimeoutResult(s) ==
    LET idx == findIndex(pendingPermissionRequests, s)
    IN IF idx # 0
       THEN [QueueTimeoutState EXCEPT
                !.pendingPermissionRequests = RemoveAt(pendingPermissionRequests, idx),
                !.promises = [promises EXCEPT ![s].st = "rejected"]]
       ELSE QueueTimeoutState

\* the 30 s timer of the queued submit s fires
QueueTimeout(s) ==
    /\ s \in queueTimers
    /\ queueTimers' = queueTimers \ {s}
    /\ LET r == QueueTimeoutResult(s)
       IN /\ pendingPermissionRequests' = r.pendingPermissionRequests
          /\ promises' = r.promises
          /\ requests' = r.requests
          /\ agentRequests' = r.agentRequests
          /\ completedRequests' = r.completedRequests
    /\ UNCHANGED <<toolCalls, responses, decisionTimers, sessionQueue, nextToolId,
                   lastPush>>
    /\ UNCHANGED daemonVars

\* variant of the timer: the resolver is deleted, the agent state is not
\* updated
DecisionTimeoutNoStateUpdate(t) ==
    /\ t \in decisionTimers
    /\ decisionTimers' = decisionTimers \ {t}
    /\ requests' = MapDelete(requests, t.id)
    /\ UNCHANGED <<toolCalls, responses, pendingPermissionRequests, queueTimers,
                   sessionQueue, promises, nextToolId, agentRequests,
                   completedRequests, lastPush>>
    /\ UNCHANGED daemonVars

\* the part of the state the decision timer's callback can write
DecisionTimeoutState ==
    [requests |-> requests, agentRequests |-> agentRequests,
     completedRequests |-> completedRequests, promises |-> promises,
     pendingPermissionRequests |-> pendingPermissionRequests,
     toolCalls |-> toolCalls]

\* variant of the callback: the resolver is not deleted
DecisionTimeoutResultKeepsResolver(t) ==
    [DecisionTimeoutState EXCEPT
        !.agentRequests = IF t.id \in DOMAIN agentRequests
                          THEN MapDelete(agentRequests, t.id)
                          ELSE agentRequests,
        !.completedRequests =
            IF t.id \in DOMAIN agentRequests
            THEN MapSet(completedRequests, t.id,
                        canceledEntry(agentRequests[t.id], "Timeout"))
            ELSE completedRequests]

\* the setTimeout callback armed by handlePermissionRequest(t.id, ...): the
\* state it leaves when it runs in the current state
DecisionTimeoutResult(t) ==
    [DecisionTimeoutState EXCEPT
        !.requests = MapDelete(requests, t.id),
        !.agentRequests = IF t.id \in DOMAIN agentRequests
                          THEN MapDelete(agentRequests, t.id)
                          ELSE agentRequests,
        !.completedRequests =
            IF t.id \in DOMAIN agentRequests
            THEN MapSet(completedRequests, t.id,
                        canceledEntry(agentRequests[t.id], "Timeout"))
            ELSE completedRequests]

\* the 4.5 min timer armed by handlePermissionRequest(t.id, ...) fires
DecisionTimeout(t) ==
    /\ t \in decisionTimers
    /\ decisionTimers' = decisionTimers \ {t}
    /\ LET r == DecisionTimeoutResult(t)
       IN /\ requests' = r.requests
          /\ agentRequests' = r.agentRequests
          /\ completedRequests' = r.completedRequests
          /\ promises' = r.promises
          /\ pendingPermissionRequests' = r.pendingPermissionRequests
          /\ toolCalls' = r.toolCalls
    /\ UNCHANGED <<responses, queueTimers, sessionQueue, nextToolId, lastPush>>
    /\ UNCHANGED daemonVars

\* the part of the state the permission handler can write
PermissionState ==
    [responses |-> responses, requests |-> requests, promises |-> promises,
     sessionQueue |-> sessionQueue, decisionTimers |-> decisionTimers,
     agentRequests |-> agentRequests, completedRequests |-> completedRequests,
     toolCalls |-> toolCalls,
     pendingPermissionRequests |-> pendingPermissionRequests]

\* variant of the handler: the message is stored in responses before the
\* resolver is looked up
PermissionResultStoresFirst(message) ==
    IF message.id \in DOMAIN requests
    THEN LET id == message.id
             s == requests[id]
             v == resolvedValue(promises[s].name, message)
             known == id \in DOMAIN agentRequests
         IN [responses |-> MapSet(responses, id, message),
             promises |-> [promises EXCEPT ![s].st = "resolved",
                                           ![s].approved = v.approved,
                                           ![s].reason = v.reason],
             sessionQueue |->
                 IF IsPlanExit(promises[s].name) /\ message.approved
                 THEN <<restartMode(message.mode)>> \o sessionQueue
                 ELSE sessionQueue,
             decisionTimers |-> {t \in decisionTimers : t.sub # s},
             requests |-> MapDelete(requests, id),
             agentRequests |-> IF known THEN MapDelete(agentRequests, id)
                               ELSE agentRequests,
             completedRequests |->
                 IF known
                 THEN MapSet(completedRequests, id,
                             completedEntry(agentRequests[id], message))
                 ELSE completedRequests,
             toolCalls |-> toolCalls,
             pendingPermissionRequests |-> pendingPermissionRequests]
    ELSE [PermissionState EXCEPT
             !.responses = MapSet(responses, message.id, message)]

\* session.client.setHandler('permission', ...): the state the handler leaves
\* when the decision message arrives in the current state
PermissionResult(message) ==
    IF message.id \in DOMAIN requests
    THEN LET id == message.id
             s == requests[id]
             v == resolvedValue(promises[s].name, message)
             known == id \in DOMAIN agentRequests
         IN [responses |-> MapSet(responses, id, message),
             promises |-> [promises EXCEPT ![s].st = "resolved",
                                           ![s].approved = v.approved,
                                           ![s].reason = v.reason],
             sessionQueue |->
                 IF IsPlanExit(promises[s].name) /\ message.approved
                 THEN <<restartMode(message.mode)>> \o sessionQueue
                 ELSE sessionQueue,
             \* promise.then(() => clearTimeout(timeout))
             decisionTimers |-> {t \in decisionTimers : t.sub # s},
             requests |-> MapDelete(requests, id),
             agentRequests |-> IF known THEN MapDelete(agentRequests, id)
                               ELSE agentRequests,
             completedRequests |->
                 IF known
                 THEN MapSet(completedRequests, id,
                             completedEntry(agentRequests[id], message))
                 ELSE completedRequests,
             toolCalls |-> toolCalls,
             pendingPermissionRequests |-> pendingPermissionRequests]
    ELSE PermissionState

Permission(message) ==
    /\ LET r == PermissionResult(message)
       IN /\ responses' = r.responses
          /\ requests' = r.requests
          /\ promises' = r.promises
          /\ sessionQueue' = r.sessionQueue
          /\ decisionTimers' = r.decisionTimers
          /\ agentRequests' = r.agentRequests
          /\ completedRequests' = r.completedRequests
          /\ toolCalls' = r.toolCalls
          /\ pendingPermissionRequests' = r.pendingPermissionRequests
    /\ UNCHANGED <<queueTimers, nextToolId, lastPush>>
    /\ UNCHANGED daemonVars

\* the part of the state reset() can write, and the timers
ResetState ==
    [toolCalls |-> toolCalls, requests |-> requests, responses |-> responses,
     pendingPermissionRequests |-> pendingPermissionRequests,
     queueTimers |-> queueTimers, decisionTimers |-> decisionTimers,
     agentRequests |-> agentRequests, completedRequests |-> completedRequests,
     promises |-> promises]

\* every pending request of the agent state moved to canceled
resetCompleted(st) ==
    [id \in (DOMAIN st.completedRequests) \cup (DOMAIN st.agentRequests) |->
        IF id \in DOMAIN st.agentRequests
        THEN canceledEntry(st.agentRequests[id], "Session switched to local mode")
        ELSE st.completedRequests[id]]

\* variant of reset: requests.clear() is missing
ResetOfKeepsResolvers(st) ==
    [st EXCEPT
        !.toolCalls = <<>>,
        !.responses = EmptyMap,
        !.queueTimers = st.queueTimers \
            {st.pendingPermissionRequests[i].sub :
                i \in DOMAIN st.pendingPermissionRequests},
        !.pendingPermissionRequests = <<>>,
        !.completedRequests = resetCompleted(st),
        !.agentRequests = EmptyMap]

\* variant of reset: the agent state is not updated
ResetOfKeepsPending(st) ==
    [st EXCEPT
        !.toolCalls = <<>>,
        !.requests = EmptyMap,
        !.responses = EmptyMap,
        !.queueTimers = st.queueTimers \
            {st.pendingPermissionRequests[i].sub :
                i \in DOMAIN st.pendingPermissionRequests},
        !.pendingPermissionRequests = <<>>]

\* reset() run in the state st: the state it leaves
ResetOf(st) ==
    [st EXCEPT
        !.toolCalls = <<>>,
        !.requests = EmptyMap,
        !.responses = EmptyMap,
        \* clearTimeout(pending.timeout) for every queued request
        !.queueTimers = st.queueTimers \
            {st.pendingPermissionRequests[i].sub :
                i \in DOMAIN st.pendingPermissionRequests},
        !.pendingPermissionRequests = <<>>,
        !.completedRequests = resetCompleted(st),
        !.agentRequests = EmptyMap]

\* reset()
Reset ==
    /\ LET r == ResetOf(ResetState)
       IN /\ toolCalls' = r.toolCalls
          /\ requests' = r.requests
          /\ responses' = r.responses
          /\ queueTimers' = r.queueTimers
          /\ pendingPermissionRequests' = r.pendingPermissionRequests
          /\ completedRequests' = r.completedRequests
          /\ agentRequests' = r.agentRequests
          /\ decisionTimers' = r.decisionTimers
          /\ promises' = r.promises
    /\ UNCHANGED <<sessionQueue, nextToolId, lastPush>>
    /\ UNCHANGED daemonVars

\* onMessage, assistant message with one tool_use block (name, input)
Record(name, input) ==
    /\ nextToolId <= MaxRecords
    /\ LET id == nextToolId
           i == scanPending(pendingPermissionRequests,
                            Len(pendingPermissionRequests), name, input)
       IN /\ toolCalls' = Append(toolCalls,
                 [id |-> id, name |-> name, input |-> input, used |-> FALSE])
          /\ IF i # 0
             THEN LET pending == pendingPermissionRequests[i]
                  IN /\ queueTimers' = queueTimers \ {pending.sub}
                     /\ pendingPermissionRequests' = RemoveAt(pendingPermissionRequests, i)
                     /\ \E delivered \in BOOLEAN :
                           handlePermissionRequest(id, pending.sub, pending.name,
                                                   pending.arguments, delivered)
                     /\ promises' = [promises EXCEPT ![pending.sub].st = "awaiting",
                                                     ![pending.sub].id = id]
             ELSE UNCHANGED <<queueTimers, pendingPermissionRequests, requests,
                              decisionTimers, agentRequests, promises, lastPush>>
    /\ nextToolId' = nextToolId + 1
    /\ UNCHANGED <<responses, completedRequests, sessionQueue>>
    /\ UNCHANGED daemonVars

\* variant of the tool_result handling: the flag of the record is flipped
markConsumedByResultFlips(calls, tool_use_id) ==
    LET i == findToolCall(calls, tool_use_id)
    IN IF i # 0 THEN [calls EXCEPT ![i].used = ~calls[i].used] ELSE calls

\* the ledger after a tool_result block for tool_use_id:
\* if (toolCall && !toolCall.used) toolCall.used = true
markConsumedByResult(calls, tool_use_id) ==
    LET i == findToolCall(calls, tool_use_id)
    IN IF i # 0 /\ ~calls[i].used
       THEN [calls EXCEPT ![i].used = TRUE]
       ELSE calls

\* onMessage, user message with one tool_result block for tool_use_id
ToolResult(tool_use_id) ==
    /\ toolCalls' = markConsumedByResult(toolCalls, tool_use_id)
    /\ UNCHANGED <<responses, requests, pendingPermissionRequests, queueTimers,
                   decisionTimers, agentRequests, completedRequests,
                   sessionQueue, promises, nextToolId, lastPush>>
    /\ UNCHANGED daemonVars

Next ==
    \/ \E c \in ToolCallShapes : Submit(c.name, c.arguments)
    \/ \E c \in ToolCallShapes : Record(c.name, c.arguments)
    \/ \E id \in MessageIds : ToolResult(id)
    \/ \E message \in PermissionResponse : Permission(message)
    \/ \E s \in 1..MaxSubmits : QueueTimeout(s)
    \/ \E s \in 1..MaxSubmits, id \in ToolIds :
          DecisionTimeout([sub |-> s, id |-> id])
    \/ Reset

Spec == Init /\ [][Next]_vars

\* an armed timer fires: the event loop runs the callback of every timer that
\* is not cleared
FairSpec ==
    /\ Spec
    /\ \A s \in 1..MaxSubmits : WF_vars(QueueTimeout(s))
    /\ \A s \in 1..MaxSubmits, id \in ToolIds :
          WF_vars(DecisionTimeout([sub |-> s, id |-> id]))

TypeOK ==
    /\ nextToolId \in 1..(MaxRecords + 1)
    /\ Len(promises) <= MaxSubmits
    /\ DOMAIN requests \subseteq ToolIds
    /\ DOMAIN agentRequests \subseteq ToolIds
    /\ lastPush \in {"none", "sent", "failed"}

\* ------------------------------------------------------- control server
MaxSpawns == 2
MaxStops == 2
MaxStopSessions == 2

SessionIds == {"s1", "s2"}
NoSessionId == ""
\* pid of a session started from a terminal, not by the daemon
TerminalPid == MaxSpawns + 1
StopRequests == 1..MaxStops

\* spawnSession resolved to null
NoSession == [pid |-> 0, happySessionId |-> NoSessionId, startedBy |-> "none"]

\* getChildren(): the tracked sessions
getChildren(tracked) == tracked

\* stopSession(sessionId): true when a tracked session has this id; the
\* session is then stopped and no longer tracked
stopSession(tracked, sessionId) ==
    [success |-> \E c \in tracked : c.happySessionId = sessionId,
     children |-> {c \in tracked : c.happySessionId # sessionId}]

\* spawnSession(directory, sessionId): a tracked session of a new process
\* that has reported sessionId (or none yet), or null when the process could
\* not be created
spawnSession(pid, sessionId, created) ==
    IF created
    THEN [pid |-> pid, happySessionId |-> sessionId, startedBy |-> "daemon"]
    ELSE NoSession

\* onHappySessionWebhook(sessionId, metadata): the process metadata.hostPid
\* reports its session id; idempotent
onHappySessionWebhook(tracked, sessionId, hostPid) ==
    IF \E c \in tracked : c.happySessionId = sessionId
    THEN tracked
    ELSE IF \E c \in tracked : c.pid = hostPid
         THEN {IF c.pid = hostPid /\ c.happySessionId = NoSessionId
               THEN [c EXCEPT !.happySessionId = sessionId]
               ELSE c : c \in tracked}
         ELSE tracked \cup {[pid |-> hostPid, happySessionId |-> sessionId,
                             startedBy |-> "terminal"]}

\* what the stop-daemon handling leaves alone apart from the registry
StopFrame == UNCHANGED <<correlatorVars, nextPid, spawnSessionCalls>>

\* POST /session-started
SessionStarted(sessionId, hostPid) ==
    /\ inStopHandler = 0
    /\ hostPid = TerminalPid \/ \E c \in children : c.pid = hostPid
    /\ children' = onHappySessionWebhook(children, sessionId, hostPid)
    /\ lastReply' = [route |-> "session-started", code |-> 200,
                     body |-> [status |-> "ok"]]
    /\ UNCHANGED <<correlatorVars, nextPid, spawnSessionCalls, stopSessionCalls,
                   nextStopRequest, inStopHandler, stopAcked, shutdownTimers,
                   shutdownRequested>>

\* POST /list
List ==
    /\ inStopHandler = 0
    /\ lastReply' = [route |-> "list", code |-> 200,
                     body |-> [children |-> getChildren(children)]]
    /\ UNCHANGED <<correlatorVars, children, nextPid, spawnSessionCalls,
                   stopSessionCalls, nextStopRequest, inStopHandler, stopAcked,
                   shutdownTimers, shutdownRequested>>

\* variant of /stop-session: the result of stopSession is not reported
StopSessionAlwaysSucceeds(sessionId) ==
    /\ inStopHandler = 0
    /\ stopSessionCalls < MaxStopSessions
    /\ children' = stopSession(children, sessionId).children
    /\ lastReply' = [route |-> "stop-session", code |-> 200,
                     body |-> [success |-> TRUE]]
    /\ stopSessionCalls' = stopSessionCalls + 1
    /\ UNCHANGED <<correlatorVars, nextPid, spawnSessionCalls, nextStopRequest,
                   inStopHandler, stopAcked, shutdownTimers, shutdownRequested>>

\* POST /stop-session
StopSession(sessionId) ==
    /\ inStopHandler = 0
    /\ stopSessionCalls < MaxStopSessions
    /\ LET r == stopSession(children, sessionId)
       IN /\ children' = r.children
          /\ lastReply' = [route |-> "stop-session", code |-> 200,
                           body |-> [success |-> r.success]]
    /\ stopSessionCalls' = stopSessionCalls + 1
    /\ UNCHANGED <<correlatorVars, nextPid, spawnSessionCalls, nextStopRequest,
                   inStopHandler, stopAcked, shutdownTimers, shutdownRequested>>

\* variant of the response: the result of spawnSession is used without
\* testing it
spawnReplyAssumesSession(session) ==
    [route |-> "spawn-session", code |-> 200,
     body |-> [success |-> TRUE, pid |-> session.pid,
               sessionId |-> IF session.happySessionId # NoSessionId
                             THEN session.happySessionId ELSE "pending"]]

\* POST /spawn-session, the response for the result of spawnSession
spawnReply(session) ==
    IF session # NoSession
    THEN [route |-> "spawn-session", code |-> 200,
          body |-> [success |-> TRUE, pid |-> session.pid,
                    sessionId |-> IF session.happySessionId # NoSessionId
                                  THEN session.happySessionId ELSE "pending"]]
    ELSE [route |-> "spawn-session", code |-> 500,
          body |-> [error |-> "Failed to spawn session"]]

\* POST /spawn-session
SpawnSession(sessionId, created) ==
    /\ inStopHandler = 0
    /\ spawnSessionCalls < MaxSpawns
    /\ \A c \in children : sessionId = NoSessionId \/ c.happySessionId # sessionId
    /\ spawnSessionCalls' = spawnSessionCalls + 1
    /\ LET session == spawnSession(nextPid, sessionId, created)
       IN /\ lastReply' = spawnReply(session)
          /\ IF session # NoSession
             THEN /\ children' = children \cup {session}
                  /\ nextPid' = nextPid + 1
             ELSE UNCHANGED <<children, nextPid>>
    /\ UNCHANGED <<correlatorVars, stopSessionCalls, nextStopRequest,
                   inStopHandler, stopAcked, shutdownTimers, shutdownRequested>>

\* variant of the /stop handler: shutdown is requested in the handler itself,
\* before it returns
StopHandlerShutsDownFirst ==
    /\ inStopHandler = 0
    /\ nextStopRequest <= MaxStops
    /\ shutdownRequested' = shutdownRequested \cup {nextStopRequest}
    /\ inStopHandler' = nextStopRequest
    /\ nextStopRequest' = nextStopRequest + 1
    /\ StopFrame
    /\ UNCHANGED <<children, stopSessionCalls, stopAcked, shutdownTimers,
                   lastReply>>

\* variant of the /stop handler: every managed session is stopped as well
StopHandlerKillsManaged ==
    /\ inStopHandler = 0
    /\ nextStopRequest <= MaxStops
    /\ shutdownTimers' = shutdownTimers \cup {nextStopRequest}
    /\ inStopHandler' = nextStopRequest
    /\ nextStopRequest' = nextStopRequest + 1
    /\ children' = {c \in children : c.startedBy # "daemon"}
    /\ stopSessionCalls' =
          stopSessionCalls + Cardinality({c \in children : c.startedBy = "daemon"})
    /\ StopFrame
    /\ UNCHANGED <<stopAcked, shutdownRequested, lastReply>>

\* POST /stop, the body of the handler: setTimeout(() => requestShutdown(), 50)
StopHandler ==
    /\ inStopHandler = 0
    /\ nextStopRequest <= MaxStops
    /\ shutdownTimers' = shutdownTimers \cup {nextStopRequest}
    /\ inStopHandler' = nextStopRequest
    /\ nextStopRequest' = nextStopRequest + 1
    /\ StopFrame
    /\ UNCHANGED <<children, stopSessionCalls, stopAcked, shutdownRequested,
                   lastReply>>

\* POST /stop, the handler returns { status: 'stopping' }
StopReturn ==
    /\ inStopHandler # 0
    /\ stopAcked' = stopAcked \cup {inStopHandler}
    /\ inStopHandler' = 0
    /\ lastReply' = [route |-> "stop", code |-> 200,
                     body |-> [status |-> "stopping"]]
    /\ StopFrame
    /\ UNCHANGED <<children, stopSessionCalls, nextStopRequest, shutdownTimers,
                   shutdownRequested>>

\* the 50 ms timer of the /stop request r fires: requestShutdown().  A timer
\* callback runs only when no handler is on the stack.
ShutdownTimer(r) ==
    /\ r \in shutdownTimers
    /\ inStopHandler = 0
    /\ shutdownTimers' = shutdownTimers \ {r}
    /\ shutdownRequested' = shutdownRequested \cup {r}
    /\ StopFrame
    /\ UNCHANGED <<children, stopSessionCalls, nextStopRequest, inStopHandler,
                   stopAcked, lastReply>>

DaemonNext ==
    \/ \E sessionId \in SessionIds, hostPid \in (1..MaxSpawns) \cup {TerminalPid} :
          SessionStarted(sessionId, hostPid)
    \/ List
    \/ \E sessionId \in SessionIds : StopSession(sessionId)
    \/ \E sessionId \in SessionIds \cup {NoSessionId}, created \in BOOLEAN :
          SpawnSession(sessionId, created)
    \/ StopHandler
    \/ StopReturn
    \/ \E r \in StopRequests : ShutdownTimer(r)

DaemonSpec == Init /\ [][DaemonNext]_vars

\* a running handler returns, and an armed timer fires
DaemonFairSpec ==
    /\ DaemonSpec
    /\ WF_vars(StopReturn)
    /\ \A r \in StopRequests : WF_vars(ShutdownTimer(r))

DaemonTypeOK ==
    /\ nextPid \in 1..(MaxSpawns + 1)
    /\ spawnSessionCalls \in 0..MaxSpawns
    /\ stopSessionCalls \in 0..MaxStopSessions
    /\ nextStopRequest \in 1..(MaxStops + 1)
    /\ inStopHandler \in 0..MaxStops
    /\ stopAcked \subseteq StopRequests
    /\ shutdownTimers \subseteq StopRequests
    /\ shutdownRequested \subseteq StopRequests
    /\ \A c \in children : c.pid \in (1..MaxSpawns) \cup {TerminalPid}

\* ---------------------------------------------------------------- claims
\* records of the ledger with this name and structurally equal arguments
Matches(calls, name, args) ==
    {i \in DOMAIN calls : calls[i].name = name /\ deepEqual(calls[i].input, args)}
UnconsumedMatches(calls, name, args) ==
    {i \in Matches(calls, name, args) : ~calls[i].used}

\* a step that issues a submit; the new submit is the last promise
IsSubmitStep == Len(promises') = Len(promises) + 1
\* a step that records a tool_use block; the new record is the last of the ledger
IsRecordStep == nextToolId' = nextToolId + 1

\* C1: no record id is ever claimed by two submits, whether a submit matched
\* directly or was queued and matched by a later record.
C1_NoRecordClaimedTwice ==
    \A s1, s2 \in DOMAIN promises :
        (s1 # s2 /\ promises[s1].id # 0 /\ promises[s2].id # 0)
            => promises[s1].id # promises[s2].id

\* C2 (as claimed): a submit is bound to an unconsumed record with its name
\* and structurally equal arguments whenever one exists in the ledger, and to
\* none only when no such record exists.
C2_FindsAnyUnconsumedMatch ==
    [][IsSubmitStep =>
        LET p == promises'[Len(promises')]
            U == UnconsumedMatches(toolCalls, p.name, p.arguments)
        IN /\ U # {} => p.id \in {toolCalls[i].id : i \in U}
           /\ U = {} => p.id = 0]_vars

\* C2 (amended): a submit is bound to the most recently added record with its
\* name and structurally equal arguments when that record is unconsumed, and
\* to none when no record matches or the most recent match is consumed.
C2_FindsMostRecentMatchIfUnconsumed ==
    [][IsSubmitStep =>
        LET p == promises'[Len(promises')]
            M == Matches(toolCalls, p.name, p.arguments)
        IN IF M # {} /\ ~toolCalls[Max(M)].used
           THEN p.id = toolCalls[Max(M)].id /\ p.st = "awaiting"
           ELSE p.id = 0 /\ p.st = "queued"]_vars

\* a submit was queued although an older identical record is unconsumed,
\* because the newest identical record is consumed
C2_Witness ==
    \E q \in DOMAIN pendingPermissionRequests :
        LET e == pendingPermissionRequests[q]
            M == Matches(toolCalls, e.name, e.arguments)
        IN /\ promises[e.sub].st = "queued"
           /\ \E i, j \in M : i < j /\ ~toolCalls[i].used /\ toolCalls[j].used
                               /\ j = Max(M)

QueuedMatches(queue, name, input) ==
    {i \in DOMAIN queue :
        queue[i].name = name /\ deepEqual(queue[i].arguments, input)}

InQueue(queue, s) == \E i \in DOMAIN queue : queue[i].sub = s

\* C4: out-of-order resolution.  A submit issued when no record matches is
\* queued with its timer armed; when a record with the same name and
\* structurally equal arguments arrives while a matching entry is queued, one
\* such entry is dequeued, its queue timer is cancelled and a pending decision
\* is created whose id is the record's id.
C4_OutOfOrderResolution ==
    [][/\ IsSubmitStep =>
            LET s == Len(promises')
                p == promises'[s]
            IN Matches(toolCalls, p.name, p.arguments) = {} =>
                  /\ p.st = "queued" /\ p.id = 0
                  /\ s \in queueTimers'
                  /\ pendingPermissionRequests' =
                        Append(pendingPermissionRequests,
                               [sub |-> s, name |-> p.name, arguments |-> p.arguments])
                  /\ requests' = requests /\ agentRequests' = agentRequests
       /\ IsRecordStep =>
            LET r == toolCalls'[Len(toolCalls')]
                Q == QueuedMatches(pendingPermissionRequests, r.name, r.input)
            IN Q # {} =>
                 \E i \in Q :
                    LET s == pendingPermissionRequests[i].sub
                    IN /\ s \in queueTimers
                       /\ pendingPermissionRequests' =
                             RemoveAt(pendingPermissionRequests, i)
                       /\ queueTimers' = queueTimers \ {s}
                       /\ r.id \in DOMAIN requests' /\ requests'[r.id] = s
                       /\ promises'[s].st = "awaiting" /\ promises'[s].id = r.id
                       /\ r.id \in DOMAIN agentRequests'
                       /\ agentRequests'[r.id].tool = r.name
                       /\ [sub |-> s, id |-> r.id] \in decisionTimers']_vars

\* a submit that was queued has been bound by a later record: it awaits the
\* decision on a record that no direct match has consumed
C4_Witness ==
    \E s \in DOMAIN promises : \E i \in DOMAIN toolCalls :
        /\ promises[s].st = "awaiting"
        /\ promises[s].id = toolCalls[i].id
        /\ ~toolCalls[i].used
        /\ toolCalls[i].id \in DOMAIN requests
        /\ requests[toolCalls[i].id] = s
        /\ s \notin queueTimers
        /\ ~InQueue(pendingPermissionRequests, s)

\* C5: queue timeout.  When the 30 s timer of a queued submit fires, the
\* submit fails with ToolCallNeverArrived and its entry leaves the queue; no
\* pending decision and no request entry exists or is created for it.
C5_QueueTimeoutRejects ==
    /\ \A s \in queueTimers :
          LET r == QueueTimeoutResult(s)
          IN /\ promises[s].st = "queued"
             /\ r.promises[s].st = "rejected"
             /\ \A s2 \in DOMAIN promises :
                   s2 # s => r.promises[s2] = promises[s2]
             /\ ~InQueue(r.pendingPermissionRequests, s)
             /\ Len(r.pendingPermissionRequests) = Len(pendingPermissionRequests) - 1
             /\ r.requests = requests
             /\ r.agentRequests = agentRequests
             /\ r.completedRequests = completedRequests
    /\ \A s \in DOMAIN promises :
          promises[s].st = "rejected" =>
             /\ promises[s].id = 0
             /\ ~InQueue(pendingPermissionRequests, s)
             /\ s \notin queueTimers
             /\ \A id \in DOMAIN requests : requests[id] # s
             /\ \A t \in decisionTimers : t.sub # s

\* a queued submit has failed with ToolCallNeverArrived
C5_Witness ==
    \E s \in DOMAIN promises :
        promises[s].st = "rejected" /\ ~InQueue(pendingPermissionRequests, s)

\* C6: for a tool that is not the plan-exit tool, a decision message whose id
\* has a pending decision resolves that submit with the message's approved and
\* reason, removes the request from the pending set and records it as approved
\* when approved is true and as denied when it is false.
C6_DecisionResolvesPending ==
    \A m \in PermissionResponse :
        (m.id \in DOMAIN requests /\ ~IsPlanExit(promises[requests[m.id]].name)) =>
            LET r == PermissionResult(m)
                s == requests[m.id]
            IN /\ promises[s].st = "awaiting"
               /\ r.promises[s].st = "resolved"
               /\ r.promises[s].approved = m.approved
               /\ r.promises[s].reason = m.reason
               /\ m.id \notin DOMAIN r.requests
               /\ m.id \notin DOMAIN r.agentRequests
               /\ m.id \in DOMAIN r.completedRequests
               /\ r.completedRequests[m.id].status =
                     (IF m.approved THEN "approved" ELSE "denied")
               /\ r.completedRequests[m.id].reason = m.reason

\* a request for a tool other than plan-exit has been denied by a decision
C6_Witness ==
    \E s \in DOMAIN promises :
        /\ ~IsPlanExit(promises[s].name)
        /\ promises[s].st = "resolved" /\ ~promises[s].approved
        /\ promises[s].reason = PLAN_FAKE_REJECT
        /\ promises[s].id \in DOMAIN completedRequests
        /\ completedRequests[promises[s].id].status = "denied"
        /\ promises[s].id \notin DOMAIN agentRequests

\* C7: once a request id is recorded as approved, denied or canceled, no
\* later step changes its status or reason and the id never becomes pending
\* again.
C7_TerminalStatusIsFinal ==
    [][\A id \in DOMAIN completedRequests :
          /\ id \in DOMAIN completedRequests'
          /\ completedRequests'[id].status = completedRequests[id].status
          /\ completedRequests'[id].reason = completedRequests[id].reason
          /\ id \notin DOMAIN agentRequests']_vars

\* C8: every request written as pending eventually leaves the pending set
\* and has a terminal status, whether or not a decision is ever received
\* (armed timers eventually fire).
C8_PendingEventuallyTerminal ==
    \A id \in ToolIds :
        (id \in DOMAIN agentRequests) ~>
            (id \notin DOMAIN agentRequests /\ id \in DOMAIN completedRequests)

\* a request became terminal through its decision timer, with no decision
C8_Witness ==
    \E id \in DOMAIN completedRequests :
        /\ completedRequests[id].status = "canceled"
        /\ completedRequests[id].reason = "Timeout"
        /\ id \notin DOMAIN agentRequests
        /\ id \notin DOMAIN responses

\* C9: a request canceled by its decision timer stays canceled with reason
\* "Timeout": its submit is not failed, and a decision message that arrives
\* afterwards for that id is ignored.
C9_TimedOutStaysCanceled ==
    \A id \in DOMAIN completedRequests :
        (completedRequests[id].status = "canceled"
         /\ completedRequests[id].reason = "Timeout") =>
            /\ \A m \in PermissionResponse :
                  m.id = id => PermissionResult(m) = PermissionState
            /\ id \notin DOMAIN agentRequests
            /\ \A s \in DOMAIN promises :
                  promises[s].id = id => promises[s].st # "rejected"

\* C10: a decision message whose id has no pending decision is dropped: it
\* resolves no submit and changes neither the agent state, the ledger, the
\* queue, the recorded responses nor anything else the handler can write.
C10_StaleDecisionDropped ==
    \A m \in PermissionResponse :
        m.id \notin DOMAIN requests => PermissionResult(m) = PermissionState

\* ids without a pending decision exist: one already decided, one timed out
C10_Witness ==
    /\ \E id \in DOMAIN responses :
          id \notin DOMAIN requests /\ id \in DOMAIN completedRequests
    /\ \E id \in DOMAIN completedRequests :
          id \notin DOMAIN requests /\ completedRequests[id].reason = "Timeout"

\* a decision message for a pending plan-exit request
PlanExitPending(m) ==
    m.id \in DOMAIN requests /\ IsPlanExit(promises[requests[m.id]].name)

\* C11: plan-exit approval.  When the pending request's tool is
\* exit_plan_mode or ExitPlanMode and a decision with approved = true
\* arrives, the submit resolves with approved = false and the rejection
\* sentinel as reason, and exactly one restart instruction is inserted at the
\* front of the session's queue.
C11_PlanExitApprovalRestarts ==
    \A m \in PermissionResponse :
        (PlanExitPending(m) /\ m.approved) =>
            LET r == PermissionResult(m)
                s == requests[m.id]
            IN /\ r.promises[s].st = "resolved"
               /\ r.promises[s].approved = FALSE
               /\ r.promises[s].reason = PLAN_FAKE_REJECT
               /\ Len(r.sessionQueue) = Len(sessionQueue) + 1
               /\ Tail(r.sessionQueue) = sessionQueue

\* an approved ExitPlanMode request has been resolved with the sentinel and
\* a restart instruction is queued
C11_Witness ==
    \E s \in DOMAIN promises :
        /\ promises[s].name = "ExitPlanMode"
        /\ promises[s].st = "resolved" /\ ~promises[s].approved
        /\ promises[s].reason = PLAN_FAKE_REJECT
        /\ promises[s].id \in DOMAIN responses
        /\ responses[promises[s].id].approved
        /\ Len(sessionQueue) = 1

\* C12: the restart instruction carries the decision's mode when it is
\* default, acceptEdits or bypassPermissions and default when it is plan or
\* absent; the carried permissionMode is never plan.
C12_RestartModeNeverPlan ==
    /\ \A m \in PermissionResponse :
          (PlanExitPending(m) /\ m.approved) =>
              LET carried == Head(PermissionResult(m).sessionQueue)
              IN /\ m.mode \in {"default", "acceptEdits", "bypassPermissions"}
                      => carried = m.mode
                 /\ m.mode \in {"plan", NoMode} => carried = "default"
    /\ \A i \in DOMAIN sessionQueue :
          sessionQueue[i] \in {"default", "acceptEdits", "bypassPermissions"}

\* a plan-exit approval that chose the mode plan has queued a restart with
\* the mode default
C12_Witness ==
    /\ Len(sessionQueue) = 1 /\ sessionQueue[1] = "default"
    /\ \E id \in DOMAIN responses :
          /\ responses[id].approved /\ responses[id].mode = "plan"
          /\ id \in DOMAIN completedRequests
          /\ IsPlanExit(completedRequests[id].tool)

\* C13: after a plan-exit request (either spelling) receives a decision with
\* approved = true, its terminal state has status "approved" and reason
\* "Plan approved".
C13_PlanApprovedIsReported ==
    \A m \in PermissionResponse :
        (PlanExitPending(m) /\ m.approved) =>
            LET r == PermissionResult(m)
            IN /\ m.id \in DOMAIN r.completedRequests
               /\ r.completedRequests[m.id].status = "approved"
               /\ r.completedRequests[m.id].reason = "Plan approved"

\* C14: plan-exit denial.  A decision with approved = false for a plan-exit
\* request resolves the submit with the same approved and reason, and no
\* restart instruction is added to the session's queue.
C14_PlanExitDenialPassesThrough ==
    \A m \in PermissionResponse :
        (PlanExitPending(m) /\ ~m.approved) =>
            LET r == PermissionResult(m)
                s == requests[m.id]
            IN /\ r.promises[s].st = "resolved"
               /\ r.promises[s].approved = m.approved
               /\ r.promises[s].reason = m.reason
               /\ r.sessionQueue = sessionQueue

\* a plan-exit request has been denied without a reason: the submit holds
\* the denial as sent and no restart is queued
C14_Witness ==
    \E s \in DOMAIN promises :
        /\ IsPlanExit(promises[s].name)
        /\ promises[s].st = "resolved" /\ ~promises[s].approved
        /\ promises[s].reason = NoReason
        /\ promises[s].id \in DOMAIN responses
        /\ ~responses[promises[s].id].approved
        /\ sessionQueue = <<>>

\* C15: reset() empties the ledger, the queue and the pending-decision set
\* and moves every pending request to canceled with reason "Session switched
\* to local mode", leaving no pending entry; a second reset() right after it
\* changes nothing.
C15_ResetClearsAndIsIdempotent ==
    LET r == ResetOf(ResetState)
    IN /\ r.toolCalls = <<>>
       /\ r.pendingPermissionRequests = <<>>
       /\ r.requests = EmptyMap
       /\ r.agentRequests = EmptyMap
       /\ \A id \in DOMAIN agentRequests :
             /\ id \in DOMAIN r.completedRequests
             /\ r.completedRequests[id].status = "canceled"
             /\ r.completedRequests[id].reason = "Session switched to local mode"
       /\ ResetOf(r) = r

\* reset() has run while a request was pending: the request is canceled by
\* the reset and the ledger, the queue and both maps are empty
C15_Witness ==
    /\ toolCalls = <<>> /\ pendingPermissionRequests = <<>>
    /\ requests = EmptyMap /\ agentRequests = EmptyMap
    /\ \E id \in DOMAIN completedRequests :
          completedRequests[id].reason = "Session switched to local mode"
    /\ \E id \in DOMAIN completedRequests :
          completedRequests[id].status = "approved"

\* C16: after reset() returns no timer is armed, neither a 30 s queue timer
\* nor a 4.5 min decision timer.
C16_NoTimerArmedAfterReset ==
    LET r == ResetOf(ResetState)
    IN r.queueTimers = {} /\ r.decisionTimers = {}

\* ids of the records in the ledger.  reset() empties the ledger and ids are
\* never reused, so a decision timer whose id is not in the ledger was armed
\* before the last reset().
LedgerIds == {toolCalls[i].id : i \in DOMAIN toolCalls}
PreResetTimers == {t \in decisionTimers : t.id \notin LedgerIds}

\* C17: a timer armed before a reset() re-terminates nothing after it.  A
\* decision timer from before the reset changes neither the status or reason
\* of a request nor any queued or pending request when it fires, and every
\* armed queue timer belongs to an entry that is queued now and removes that
\* entry only.
C17_StaleTimerChangesNothing ==
    /\ \A t \in PreResetTimers :
          DecisionTimeoutResult(t) = DecisionTimeoutState
    /\ \A s \in queueTimers :
          /\ InQueue(pendingPermissionRequests, s)
          /\ \A i \in DOMAIN pendingPermissionRequests :
                pendingPermissionRequests[i].sub # s =>
                    InQueue(QueueTimeoutResult(s).pendingPermissionRequests,
                            pendingPermissionRequests[i].sub)

\* a decision timer of a request that reset() canceled is still armed while
\* a request created after the reset is pending
C17_Witness ==
    \E t \in PreResetTimers :
        /\ t.id \in DOMAIN completedRequests
        /\ completedRequests[t.id].reason = "Session switched to local mode"
        /\ \E id \in DOMAIN agentRequests : id \in DOMAIN requests /\ id # t.id
\* the decision timers armed by this step: one per call of
\* handlePermissionRequest
NewDecisionTimers == decisionTimers' \ decisionTimers

\* C18: a failure of the push notification sent when a pending decision is
\* created does not block or fail permission processing: the pending entry
\* is written, the submit is not failed, and a decision still resolves it.
C18_PushFailureDoesNotBlock ==
    [][(NewDecisionTimers # {} /\ lastPush' = "failed") =>
          \A t \in NewDecisionTimers :
             /\ t.id \in DOMAIN agentRequests'
             /\ t.id \in DOMAIN requests' /\ requests'[t.id] = t.sub
             /\ promises'[t.sub].st = "awaiting"
             /\ \A m \in PermissionResponse :
                   m.id = t.id =>
                      /\ (PermissionResult(m).promises[t.sub].st = "resolved")'
                      /\ (t.id \in DOMAIN PermissionResult(m).completedRequests)'
                      /\ (t.id \notin DOMAIN PermissionResult(m).agentRequests)']_vars

\* the only notification sent so far failed, and its request has been
\* approved by a decision
C18_Witness ==
    /\ lastPush = "failed"
    /\ Cardinality({s \in DOMAIN promises : promises[s].id # 0}) = 1
    /\ \E s \in DOMAIN promises :
          /\ promises[s].st = "resolved" /\ promises[s].approved
          /\ promises[s].id \in DOMAIN completedRequests
          /\ completedRequests[promises[s].id].status = "approved"
\* a step of the stop-daemon handling: the handler's body, its return, or
\* the callback of its timer
IsStopDaemonStep ==
    \/ nextStopRequest' # nextStopRequest
    \/ stopAcked' # stopAcked
    \/ shutdownRequested' # shutdownRequested

\* C19: stop-daemon returns its acknowledgement before shutdown is
\* requested: requestShutdown is never invoked for a stop request whose
\* handler has not returned, and it is invoked eventually after the return.
C19_AckBeforeShutdown ==
    /\ [](shutdownRequested \subseteq stopAcked)
    /\ \A r \in StopRequests :
          (r \in stopAcked) ~> (r \in shutdownRequested)

\* one stop request has been acknowledged and has requested shutdown, a
\* second is acknowledged with its timer still armed
C19_Witness ==
    /\ 1 \in stopAcked /\ 1 \in shutdownRequested
    /\ 2 \in stopAcked /\ 2 \in shutdownTimers /\ 2 \notin shutdownRequested
    /\ lastReply.route = "stop" /\ lastReply.body.status = "stopping"

IsSpawnStep == spawnSessionCalls' = spawnSessionCalls + 1

\* C21: spawn-session reports success with the pid and the sessionId of the
\* spawned session ("pending" when it has not registered yet); when the
\* spawn fails the response is an explicit error that reports no session,
\* the registry is unchanged and the server keeps serving.
C21_SpawnReportsSessionOrError ==
    [][IsSpawnStep =>
          /\ lastReply'.route = "spawn-session"
          /\ inStopHandler' = 0
          /\ IF nextPid' # nextPid
             THEN /\ lastReply'.code = 200
                  /\ lastReply'.body.success
                  /\ lastReply'.body.pid = nextPid
                  /\ \E c \in children' \ children :
                        /\ c.pid = lastReply'.body.pid
                        /\ c.startedBy = "daemon"
                        /\ lastReply'.body.sessionId =
                              IF c.happySessionId = NoSessionId
                              THEN "pending" ELSE c.happySessionId
             ELSE /\ lastReply'.code = 500
                  /\ DOMAIN lastReply'.body = {"error"}
                  /\ children' = children]_vars

\* a spawn failed, and a later spawn-session request was served and
\* reported its session as pending
C21_Witness ==
    /\ spawnSessionCalls = 2 /\ nextPid = 2
    /\ lastReply.route = "spawn-session" /\ lastReply.code = 200
    /\ lastReply.body.pid = 1 /\ lastReply.body.sessionId = "pending"
Pids(tracked) == {c.pid : c \in tracked}
TrackedIds(tracked) == {c.happySessionId : c \in tracked} \ {NoSessionId}

\* a step of the stop-session handler: one more call of stopSession
IsStopSessionStep == stopSessionCalls' = stopSessionCalls + 1
\* a step of the list handler
IsListStep == lastReply'.route = "list" /\ lastReply' # lastReply

\* C22: stop-session on the id of a tracked session returns true once and
\* false on a second call for the same id, and returns false for an unknown
\* id; after a stop list no longer contains that session, and every session
\* that was tracked and has not been stopped is still listed.
C22_StopSessionOnceAndListExact ==
    [][/\ \A sessionId \in SessionIds :
             LET r == stopSession(children, sessionId)
             IN /\ r.success <=> sessionId \in TrackedIds(children)
                /\ ~stopSession(r.children, sessionId).success
                /\ sessionId \notin TrackedIds(getChildren(r.children))
                /\ \A c \in children :
                      c.happySessionId # sessionId => c \in getChildren(r.children)
       /\ IsStopSessionStep =>
             /\ lastReply'.route = "stop-session"
             /\ lastReply'.body.success <=> children' # children
             /\ children' \subseteq children
             /\ Cardinality(children \ children') <= 1
             /\ \A c \in children \ children' :
                   c.happySessionId \notin TrackedIds(children')
       /\ IsListStep => lastReply'.body.children = children'
       /\ ~(Pids(children) \subseteq Pids(children')) =>
             IsStopSessionStep /\ lastReply'.body.success]_vars

\* two sessions were spawned, one was stopped with result true, a second
\* stop-session returned false, and the session s2 is still tracked
C22_Witness ==
    /\ stopSessionCalls = 2
    /\ lastReply.route = "stop-session" /\ ~lastReply.body.success
    /\ nextPid = 3
    /\ Cardinality(children) = 1
    /\ TrackedIds(children) = {"s2"}
\* the 4.5 min timer t runs its callback in this step: it leaves the armed
\* timers and no promise settles (a decision that clears it settles one)
DecisionTimerFires(t) ==
    t \in decisionTimers /\ t \notin decisionTimers' /\ promises' = promises
\* the 30 s timer of the submit s runs its callback in this step
QueueTimerFires(s) ==
    /\ s \in queueTimers /\ s \notin queueTimers'
    /\ promises[s].st # "rejected" /\ promises'[s].st = "rejected"

\* no decision timer fires once its request was resolved by a decision, and
\* no queue timer fires once its request was dequeued by a record
TimersClearedOnResolution ==
    /\ \A t \in decisionTimers :
          DecisionTimerFires(t) => promises[t.sub].st = "awaiting"
    /\ \A s \in queueTimers :
          QueueTimerFires(s) => promises[s].st = "queued" /\ promises[s].id = 0

\* no timer fires for a request that has reached a terminal state
NoTimerFiresAfterTerminal ==
    \A t \in decisionTimers :
        DecisionTimerFires(t) => t.id \notin DOMAIN completedRequests

\* C23: timers cancel on early resolution: the 4.5 min timer of a request
\* resolved by a decision never fires, the 30 s timer of a request dequeued
\* by a record never fires, and no timer fires for a request that has
\* already reached a terminal state.
C23_TimersCancelOnEarlyResolution ==
    [][TimersClearedOnResolution /\ NoTimerFiresAfterTerminal]_vars
\* C24: when a new record structurally matches several queued requests,
\* exactly one entry is dequeued and it is the first matching entry in queue
\* order (the earliest queued); the other matching entries stay queued with
\* their timers armed.
C24_DequeuesEarliestMatch ==
    [][IsRecordStep =>
          LET r == toolCalls'[Len(toolCalls')]
              Q == QueuedMatches(pendingPermissionRequests, r.name, r.input)
          IN Cardinality(Q) >= 2 =>
                LET i == Min(Q)
                    s == pendingPermissionRequests[i].sub
                IN /\ pendingPermissionRequests' =
                         RemoveAt(pendingPermissionRequests, i)
                   /\ queueTimers' = queueTimers \ {s}
                   /\ promises'[s].id = r.id
                   /\ \A j \in Q \ {i} :
                         /\ pendingPermissionRequests[j].sub \in queueTimers'
                         /\ promises'[pendingPermissionRequests[j].sub].st = "queued"]_vars
\* markConsumedByResult in the current ledger, for every id: applying it
\* twice is applying it once, an unknown id changes nothing, a known id
\* leaves its record consumed and every other record as it was, and no
\* scan of the resulting ledger returns the consumed record
MarkConsumedContract ==
    \A id \in MessageIds :
        LET m == markConsumedByResult(toolCalls, id)
        IN /\ markConsumedByResult(m, id) = m
           /\ Len(m) = Len(toolCalls)
           /\ (\A i \in DOMAIN toolCalls : toolCalls[i].id # id) => m = toolCalls
           /\ \A i \in DOMAIN toolCalls :
                 IF toolCalls[i].id = id
                 THEN m[i] = [toolCalls[i] EXCEPT !.used = TRUE]
                 ELSE m[i] = toolCalls[i]
           /\ \A c \in ToolCallShapes :
                 LET i == resolveToolCallId(m, c.name, c.arguments)
                 IN i # 0 => m[i].id # id /\ ~m[i].used

\* C25: markConsumedByResult(id) is idempotent and a no-op for an unknown
\* id, and a consumed record is never returned by a later scan of the
\* ledger: a submit that matches only consumed records is queued, not bound
\* to one of them.
C25_ResultConsumedNeverClaimed ==
    /\ []MarkConsumedContract
    /\ [][IsSubmitStep =>
            LET s == Len(promises')
                p == promises'[s]
                M == Matches(toolCalls, p.name, p.arguments)
            IN /\ p.id # 0 =>
                    \E i \in M : toolCalls[i].id = p.id /\ ~toolCalls[i].used
               /\ UnconsumedMatches(toolCalls, p.name, p.arguments) = {} =>
                    /\ p.st = "queued" /\ p.id = 0
                    /\ InQueue(pendingPermissionRequests', s)
                    /\ s \in queueTimers']_vars

\* a record that no submit claimed was consumed by a tool_result, and a
\* later submit that matches only this record waits in the queue
C25_Witness ==
    \E i \in DOMAIN toolCalls :
        /\ toolCalls[i].used
        /\ \A s \in DOMAIN promises : promises[s].id # toolCalls[i].id
        /\ \E s \in DOMAIN promises :
              /\ promises[s].st = "queued"
              /\ InQueue(pendingPermissionRequests, s)
              /\ Matches(toolCalls, promises[s].name, promises[s].arguments) = {i}
\* C26: every queued submit is eventually settled: it is dequeued by a
\* matching record and processed, or rejected when its queue timer fires,
\* also when reset() is called while it is queued.
C26_QueuedEventuallySettled ==
    \A s \in 1..MaxSubmits :
        (s \in DOMAIN promises /\ promises[s].st = "queued")
            ~> (s \in DOMAIN promises /\ promises[s].st # "queued")
\* C27: after every operation the ids that have a registered decision
\* resolver are the ids that are pending in the agent state: no pending entry
\* lacks a resolver and no resolver lacks a pending entry; each resolver is
\* the one of a submit bound to that id.
C27_ResolversArePending ==
    /\ DOMAIN requests = DOMAIN agentRequests
    /\ \A id \in DOMAIN requests :
          requests[id] \in DOMAIN promises /\ promises[requests[id]].id = id

\* request 1 has reached a terminal state and request 2 is pending with its
\* resolver registered
C27_Witness ==
    /\ DOMAIN requests = {2} /\ DOMAIN agentRequests = {2}
    /\ 1 \in DOMAIN completedRequests
    /\ promises[requests[2]].st = "awaiting" /\ promises[requests[2]].id = 2
====
